---- MODULE Spec2Model ----
(***************************************************************************)
(* Buddy allocator of src/buddy.c: one arena of 2^MAX_ORDER bytes cut into *)
(* pages of 2^MIN_ORDER bytes, one free list per order, split on alloc and *)
(* merge on free.  Addresses are byte offsets from g_memory.               *)
(***************************************************************************)
EXTENDS Integers, Sequences, FiniteSets, TLC

\* ---------------------------------------------------------------- constants
MIN_ORDER == 12
MAX_ORDER == 20

\* The arena order the build under exploration was compiled with is held in
\* the variable max_order: Init draws it from MIN_ORDER+1 .. MIN_ORDER+MaxLevels
\* (small arenas, explored exhaustively), InitExhaust fixes it to MAX_ORDER.
MaxLevels == 2
\* Number of calls since buddy_init that hist records one by one.
MaxHist == 4
\* Number of buddy_alloc / buddy_free calls explored after a buddy_init.
MaxCalls == 6

NULL == -1
LIST_HEAD == -2

VARIABLES
    max_order,   \* value of the MAX_ORDER macro in this build
    free_area,   \* free_area[o]: pages of the free list of order o, from head.next on
    g_pages,     \* g_pages[p]: page descriptor [order, index, memory]
    allocated,   \* caller's view: [addr, order] of blocks returned and not yet freed
    age,         \* age[o]: pages of free list o in the order they were inserted
    op, arg, ret,\* last call, its argument and its return value; for buddy_init
                 \* arg is the number of blocks that were still allocated
    hist,        \* the calls since buddy_init, while there are at most MaxHist
    ncalls,      \* number of calls since buddy_init, counted up to MaxCalls
    out          \* what the last call printed: buddy_dump's <<count, KB>> per order

vars == <<max_order, free_area, g_pages, allocated, age, op, arg, ret, hist, ncalls, out>>

\* ---------------------------------------------------------------- macros
Pow2(n) == 2 ^ n

PAGE_SIZE == Pow2(MIN_ORDER)

n_pages == Pow2(max_order) \div PAGE_SIZE

Pages == 0 .. (n_pages - 1)

Orders == MIN_ORDER .. max_order

\* x ^ (1 << o) on non-negative x
XorBit(x, o) == IF (x \div Pow2(o)) % 2 = 1 THEN x - Pow2(o) ELSE x + Pow2(o)

PAGE_TO_ADDR(page_idx) == page_idx * PAGE_SIZE

ADDR_TO_PAGE(addr) == addr \div PAGE_SIZE

BUDDY_ADDR(addr, o) == XorBit(addr, o)

\* ---------------------------------------------------------------- list.h
\* The list library is not part of src/; it is modelled from the
\* specification: insertion, removal by node, traversal in insertion order.
\* variant: the new entry becomes the first of the list
list_add_front(new, head) == <<new>> \o head

list_add(new, head) == Append(head, new)

list_empty(head) == head = <<>>

\* head.next of a non-empty list
list_first(head) == Head(head)

\* list_del_init(&page->list): unlink the node from the list it is in
list_del_init(page, fa) ==
    [o \in DOMAIN fa |-> SelectSeq(fa[o], LAMBDA q : q # page)]

ListSet(head) == {head[k] : k \in 1 .. Len(head)}

\* ---------------------------------------------------------------- get_order
\* variant: strict comparison of the block size with the request
RECURSIVE get_order_from_strict(_, _)
get_order_from_strict(x, order) ==
    IF order > max_order THEN -1
    ELSE IF Pow2(order) > x THEN order
    ELSE get_order_from_strict(x, order + 1)

RECURSIVE get_order_from(_, _)
get_order_from(x, order) ==
    IF order > max_order THEN -1
    ELSE IF Pow2(order) >= x THEN order
    ELSE get_order_from(x, order + 1)

get_order(x) == get_order_from(x, MIN_ORDER)

\* ---------------------------------------------------------------- split_page
\* variant: the recursion stops one level early, the last right half is
\* never put on a free list
RECURSIVE split_page_short(_, _, _, _, _)
split_page_short(fa, gp, page, i, order) ==
    IF i - 1 # order THEN
        LET new_page_order == i - 1
            buddy_page == ADDR_TO_PAGE(BUDDY_ADDR(gp[page].memory, new_page_order))
            gp1 == [gp EXCEPT ![buddy_page].order = new_page_order]
            fa1 == [fa EXCEPT ![new_page_order] = list_add(buddy_page, fa[new_page_order])]
        IN  split_page_short(fa1, gp1, page, new_page_order, order)
    ELSE [free_area |-> fa, g_pages |-> gp]

\* variant: the right half is put on the list of the order being split
RECURSIVE split_page_up(_, _, _, _, _)
split_page_up(fa, gp, page, i, order) ==
    IF i # order THEN
        LET new_page_order == i - 1
            buddy_page == ADDR_TO_PAGE(BUDDY_ADDR(gp[page].memory, new_page_order))
            gp1 == [gp EXCEPT ![buddy_page].order = new_page_order]
            fa1 == [fa EXCEPT ![i] = list_add(buddy_page, fa[i])]
        IN  split_page_up(fa1, gp1, page, new_page_order, order)
    ELSE [free_area |-> fa, g_pages |-> gp]

RECURSIVE split_page(_, _, _, _, _)
split_page(fa, gp, page, i, order) ==
    IF i # order THEN
        LET new_page_order == i - 1
            buddy_page == ADDR_TO_PAGE(BUDDY_ADDR(gp[page].memory, new_page_order))
            gp1 == [gp EXCEPT ![buddy_page].order = new_page_order]
            fa1 == [fa EXCEPT ![new_page_order] = list_add(buddy_page, fa[new_page_order])]
        IN  split_page(fa1, gp1, page, new_page_order, order)
    ELSE [free_area |-> fa, g_pages |-> gp]

\* ---------------------------------------------------------------- buddy_alloc
\* variant: only the free list of the requested order is looked at
alloc_scan_exact(fa, gp, order, i) ==
    IF ~list_empty(fa[i]) THEN
        LET page == list_first(fa[i])
        IN  [free_area |-> list_del_init(page, fa),
             g_pages |-> [gp EXCEPT ![page].order = order],
             ret |-> gp[page].memory]
    ELSE [free_area |-> fa, g_pages |-> gp, ret |-> NULL]

\* variant: the block is taken from the far end of the list (head.prev)
RECURSIVE alloc_scan_last(_, _, _, _)
alloc_scan_last(fa, gp, order, i) ==
    IF i > max_order THEN [free_area |-> fa, g_pages |-> gp, ret |-> NULL]
    ELSE IF ~list_empty(fa[i]) THEN
        LET page == fa[i][Len(fa[i])]
            fa1 == list_del_init(page, fa)
            sp == IF order = i THEN [free_area |-> fa1, g_pages |-> gp]
                  ELSE split_page(fa1, gp, page, i, order)
        IN  [free_area |-> sp.free_area,
             g_pages |-> [sp.g_pages EXCEPT ![page].order = order],
             ret |-> gp[page].memory]
    ELSE alloc_scan_last(fa, gp, order, i + 1)

RECURSIVE alloc_scan(_, _, _, _)
alloc_scan(fa, gp, order, i) ==
    IF i > max_order THEN [free_area |-> fa, g_pages |-> gp, ret |-> NULL]
    ELSE IF ~list_empty(fa[i]) THEN
        LET page == list_first(fa[i])
            fa1 == list_del_init(page, fa)
            sp == IF order = i THEN [free_area |-> fa1, g_pages |-> gp]
                  ELSE split_page(fa1, gp, page, i, order)
        IN  [free_area |-> sp.free_area,
             g_pages |-> [sp.g_pages EXCEPT ![page].order = order],
             ret |-> gp[page].memory]
    ELSE alloc_scan(fa, gp, order, i + 1)

\* variant: the requested order is written to the first descriptor before
\* a block has been found
buddy_alloc_early(fa, gp, size) ==
    LET order == get_order(size)
    IN  IF order # -1 THEN alloc_scan(fa, [gp EXCEPT ![0].order = order], order, order)
        ELSE [free_area |-> fa, g_pages |-> gp, ret |-> NULL]

buddy_alloc(fa, gp, size) ==
    LET order == get_order(size)
    IN  IF order # -1 THEN alloc_scan(fa, gp, order, order)
        ELSE [free_area |-> fa, g_pages |-> gp, ret |-> NULL]

\* ---------------------------------------------------------------- buddy_free
\* list_for_each over free_area[i]: temp becomes the first entry whenever the
\* body runs; current_node ends on the buddy's node or back on the list head.
for_each_temp(head, temp) == IF list_empty(head) THEN temp ELSE list_first(head)

for_each_node(head, buddy_page) ==
    IF buddy_page \in ListSet(head) THEN buddy_page ELSE LIST_HEAD

\* variant: below MAX_ORDER the buddy is merged without looking for it on
\* the free list
RECURSIVE free_loop_blind(_, _, _, _, _, _)
free_loop_blind(fa, gp, current_page, index, temp, i) ==
    IF i > max_order THEN [free_area |-> fa, g_pages |-> gp, probed |-> <<>>]
    ELSE
        LET buddy_page == ADDR_TO_PAGE(BUDDY_ADDR(PAGE_TO_ADDR(current_page), i))
        IN  IF i = max_order THEN
                [free_area |-> [fa EXCEPT ![i] = list_add(index, fa[i])],
                 g_pages |-> [gp EXCEPT ![index].order = -1],
                 probed |-> <<>>]
            ELSE
                LET lower == gp[buddy_page].memory < gp[current_page].memory
                    cur1 == IF lower THEN buddy_page ELSE current_page
                    index1 == IF lower THEN gp[buddy_page].index ELSE index
                IN  free_loop_blind(list_del_init(buddy_page, fa), gp, cur1, index1, temp, i + 1)

\* variant: one merge at most, the merged block is inserted at the next order
free_loop_once(fa, gp, current_page, index, temp, i) ==
    LET buddy_page == ADDR_TO_PAGE(BUDDY_ADDR(PAGE_TO_ADDR(current_page), i))
        temp1 == for_each_temp(fa[i], temp)
    IN  IF temp1 # buddy_page THEN
            [free_area |-> [fa EXCEPT ![i] = list_add(index, fa[i])],
             g_pages |-> [gp EXCEPT ![index].order = -1],
             probed |-> <<buddy_page>>]
        ELSE
            LET lower == gp[buddy_page].memory < gp[current_page].memory
                index1 == IF lower THEN gp[buddy_page].index ELSE index
                fa1 == list_del_init(buddy_page, fa)
            IN  [free_area |-> [fa1 EXCEPT ![i + 1] = list_add(index1, fa1[i + 1])],
                 g_pages |-> [gp EXCEPT ![index1].order = -1],
                 probed |-> <<buddy_page>>]

\* variant: after a merge into the lower buddy only index moves on,
\* current_page stays on the freed block
RECURSIVE free_loop_stale(_, _, _, _, _, _)
free_loop_stale(fa, gp, current_page, index, temp, i) ==
    IF i > max_order THEN [free_area |-> fa, g_pages |-> gp, probed |-> <<>>]
    ELSE
        LET buddy_page == ADDR_TO_PAGE(BUDDY_ADDR(gp[current_page].memory, i))
            temp1 == for_each_temp(fa[i], temp)
        IN  IF temp1 # buddy_page THEN
                [free_area |-> [fa EXCEPT ![i] = list_add(index, fa[i])],
                 g_pages |-> [gp EXCEPT ![index].order = -1],
                 probed |-> <<buddy_page>>]
            ELSE
                LET lower == gp[buddy_page].memory < gp[current_page].memory
                    index1 == IF lower THEN gp[buddy_page].index ELSE index
                    r == free_loop_stale(list_del_init(buddy_page, fa), gp, current_page, index1, temp1, i + 1)
                IN  [r EXCEPT !.probed = <<buddy_page>> \o @]

\* variant: the loop runs while i < MAX_ORDER
RECURSIVE free_loop_below(_, _, _, _, _, _)
free_loop_below(fa, gp, current_page, index, temp, i) ==
    IF i >= max_order THEN [free_area |-> fa, g_pages |-> gp, probed |-> <<>>]
    ELSE
        LET buddy_page == ADDR_TO_PAGE(BUDDY_ADDR(gp[current_page].memory, i))
            temp1 == for_each_temp(fa[i], temp)
        IN  IF temp1 # buddy_page THEN
                [free_area |-> [fa EXCEPT ![i] = list_add(index, fa[i])],
                 g_pages |-> [gp EXCEPT ![index].order = -1],
                 probed |-> <<buddy_page>>]
            ELSE
                LET lower == gp[buddy_page].memory < gp[current_page].memory
                    cur1 == IF lower THEN buddy_page ELSE current_page
                    index1 == IF lower THEN gp[buddy_page].index ELSE index
                    r == free_loop_below(list_del_init(buddy_page, fa), gp, cur1, index1, temp1, i + 1)
                IN  [r EXCEPT !.probed = <<buddy_page>> \o @]

\* The result carries, beside the lists and descriptors the loop leaves,
\* the page indices of the buddies it computed (line 178), in order.
RECURSIVE free_loop(_, _, _, _, _, _)
free_loop(fa, gp, current_page, index, temp, i) ==
    IF i > max_order THEN [free_area |-> fa, g_pages |-> gp, probed |-> <<>>]
    ELSE
        LET buddy_page == ADDR_TO_PAGE(BUDDY_ADDR(gp[current_page].memory, i))
            temp1 == for_each_temp(fa[i], temp)
            current_node == for_each_node(fa[i], buddy_page)
        IN  IF current_node = NULL \/ temp1 # buddy_page THEN
                [free_area |-> [fa EXCEPT ![i] = list_add(index, fa[i])],
                 g_pages |-> [gp EXCEPT ![index].order = -1],
                 probed |-> <<buddy_page>>]
            ELSE
                LET lower == gp[buddy_page].memory < gp[current_page].memory
                    cur1 == IF lower THEN buddy_page ELSE current_page
                    index1 == IF lower THEN gp[buddy_page].index ELSE index
                    r == free_loop(list_del_init(buddy_page, fa), gp, cur1, index1, temp1, i + 1)
                IN  [r EXCEPT !.probed = <<buddy_page>> \o @]

buddy_free(fa, gp, addr) ==
    LET current_page == ADDR_TO_PAGE(addr)
        buddy_page == ADDR_TO_PAGE(BUDDY_ADDR(gp[current_page].memory, gp[current_page].order))
        r == free_loop(fa, gp, current_page, gp[current_page].index, NULL,
                       gp[current_page].order)
    IN  [r EXCEPT !.probed = <<buddy_page>> \o @]

\* ---------------------------------------------------------------- buddy_dump
\* variant: the MAX_ORDER list is left out of the report
buddy_dump_short(fa) ==
    [k \in 1 .. (max_order - MIN_ORDER) |->
        LET order_index == MIN_ORDER + k - 1
        IN  <<Len(fa[order_index]), Pow2(order_index) \div 1024>>]

\* one <<count, KB>> pair per order, MIN_ORDER first
buddy_dump(fa) ==
    [k \in 1 .. (max_order - MIN_ORDER + 1) |->
        LET order_index == MIN_ORDER + k - 1
        IN  <<Len(fa[order_index]), Pow2(order_index) \div 1024>>]

\* ---------------------------------------------------------------- buddy_init
\* variant: only the MAX_ORDER list head is initialised
buddy_init_top(fa, gp) ==
    [free_area |-> [i \in DOMAIN fa |-> IF i = max_order THEN list_add(0, <<>>) ELSE fa[i]],
     g_pages |-> [i \in DOMAIN gp |-> [order |-> -1, index |-> i, memory |-> PAGE_TO_ADDR(i)]]]

buddy_init(fa, gp) ==
    [free_area |-> [i \in DOMAIN fa |-> IF i = max_order THEN list_add(0, <<>>) ELSE <<>>],
     g_pages |-> [i \in DOMAIN gp |-> [order |-> -1, index |-> i, memory |-> PAGE_TO_ADDR(i)]]]

init_pages == [i \in Pages |-> [order |-> -1, index |-> i, memory |-> PAGE_TO_ADDR(i)]]

init_free_area == [i \in Orders |-> IF i = max_order THEN list_add(0, <<>>) ELSE <<>>]

\* ---------------------------------------------------------------- bookkeeping
\* Insertion order of every free list, kept from the lists before and after
\* a call: entries that left are dropped, the entry that came is the newest.
Aged(a, fa, fa2) ==
    [o \in DOMAIN fa2 |->
        SelectSeq(a[o], LAMBDA q : q \in ListSet(fa2[o]))
        \o SelectSeq(fa2[o], LAMBDA q : q \notin ListSet(fa[o]))]

Call(o, a, r) == [op |-> o, arg |-> a, ret |-> r]

Recorded(h, c) == IF Len(h) < MaxHist THEN Append(h, c) ELSE Append(SubSeq(h, 1, MaxHist), Call("more", 0, 0))

Counted(n) == IF n < MaxCalls THEN n + 1 ELSE n

\* sizes a caller asks for: every block size of the arena, and one byte more
\* than the arena
Sizes == {Pow2(k) : k \in Orders} \cup {Pow2(max_order) + 1}

\* ---------------------------------------------------------------- actions
InitState ==
    /\ free_area = init_free_area
    /\ g_pages = init_pages
    /\ allocated = {}
    /\ age = init_free_area
    /\ op = "init" /\ arg = 0 /\ ret = 0
    /\ hist = <<>>
    /\ ncalls = 0
    /\ out = <<>>

Init ==
    /\ max_order \in (MIN_ORDER + 1) .. (MIN_ORDER + MaxLevels)
    /\ InitState

InitExhaust ==
    /\ max_order = MAX_ORDER
    /\ InitState

BuddyInit ==
    LET r == buddy_init(free_area, g_pages)
    IN  /\ free_area' = r.free_area
        /\ g_pages' = r.g_pages
        /\ allocated' = {}
        /\ age' = r.free_area
        /\ op' = "init" /\ arg' = Cardinality(allocated) /\ ret' = 0
        /\ hist' = <<>>
        /\ ncalls' = 0
        /\ out' = <<>>
        /\ UNCHANGED max_order

AllocCall(size) ==
    LET r == buddy_alloc(free_area, g_pages, size)
    IN  /\ free_area' = r.free_area
        /\ g_pages' = r.g_pages
        /\ allocated' = IF r.ret = NULL THEN allocated
                        ELSE allocated \cup {[addr |-> r.ret, order |-> get_order(size)]}
        /\ age' = Aged(age, free_area, r.free_area)
        /\ op' = "alloc" /\ arg' = size /\ ret' = r.ret
        /\ hist' = Recorded(hist, Call("alloc", size, r.ret))
        /\ ncalls' = Counted(ncalls)
        /\ out' = <<>>
        /\ UNCHANGED max_order

BuddyAlloc == ncalls < MaxCalls /\ \E size \in Sizes : AllocCall(size)

BuddyAllocPage == AllocCall(PAGE_SIZE)

BuddyFree ==
    /\ ncalls < MaxCalls
    /\ \E b \in allocated :
        LET r == buddy_free(free_area, g_pages, b.addr)
        IN  /\ free_area' = r.free_area
            /\ g_pages' = r.g_pages
            /\ allocated' = allocated \ {b}
            /\ age' = Aged(age, free_area, r.free_area)
            /\ op' = "free" /\ arg' = b.addr /\ ret' = 0
            /\ hist' = Recorded(hist, Call("free", b.addr, 0))
            /\ ncalls' = Counted(ncalls)
            /\ out' = <<>>
            /\ UNCHANGED max_order

\* buddy_dump prints and changes nothing; the report is kept in out
BuddyDump ==
    /\ op' = "dump" /\ arg' = 0 /\ ret' = 0
    /\ out' = buddy_dump(free_area)
    /\ UNCHANGED <<max_order, free_area, g_pages, allocated, age, hist, ncalls>>

Next == BuddyInit \/ BuddyAlloc \/ BuddyFree \/ BuddyDump

Spec == Init /\ [][Next]_vars

NextExhaust == BuddyAllocPage

SpecExhaust == InitExhaust /\ [][NextExhaust]_vars

\* get_order on its own: the size is drawn in the initial state, the one
\* action calls get_order on it.  Small arenas take every size up to two
\* bytes past the arena, the arena of the source takes the sizes around
\* every power of two.
OrderSizes ==
    IF max_order = MAX_ORDER
    THEN {1} \cup UNION {{Pow2(k) - 1, Pow2(k), Pow2(k) + 1} : k \in Orders}
    ELSE 1 .. (Pow2(max_order) + 2)

InitOrder ==
    /\ max_order \in ((MIN_ORDER + 1) .. (MIN_ORDER + MaxLevels)) \cup {MAX_ORDER}
    /\ free_area = init_free_area
    /\ g_pages = init_pages
    /\ allocated = {}
    /\ age = init_free_area
    /\ op = "size" /\ arg \in OrderSizes /\ ret = 0
    /\ hist = <<>>
    /\ ncalls = 0
    /\ out = <<>>

GetOrder ==
    /\ op = "size"
    /\ op' = "get_order"
    /\ ret' = get_order(arg)
    /\ UNCHANGED <<max_order, free_area, g_pages, allocated, age, arg, hist, ncalls, out>>

NextOrder == GetOrder

SpecOrder == InitOrder /\ [][NextOrder]_vars

\* ---------------------------------------------------------------- typing
TypeOK ==
    /\ max_order \in (MIN_ORDER + 1) .. MAX_ORDER
    /\ DOMAIN free_area = Orders
    /\ \A o \in Orders : ListSet(free_area[o]) \subseteq Pages
    /\ DOMAIN g_pages = Pages
    /\ \A b \in allocated : b.addr \in {PAGE_TO_ADDR(p) : p \in Pages}

\* ---------------------------------------------------------------- claims
\* what the claims speak of, stated without the allocator's own operators
BlockPages(page, order) == page .. (page + Pow2(order - MIN_ORDER) - 1)

FreeBlocks == UNION {{[page |-> free_area[o][k], order |-> o] : k \in 1 .. Len(free_area[o])} : o \in Orders}

AllocatedBlocks == {[page |-> b.addr \div PAGE_SIZE, order |-> b.order] : b \in allocated}

RECURSIVE FreeCountFrom(_)
FreeCountFrom(o) == IF o > max_order THEN 0 ELSE Len(free_area[o]) + FreeCountFrom(o + 1)

FreeCount == FreeCountFrom(MIN_ORDER)

\* smallest order of the arena whose block holds size bytes, -1 if none
SmallestOrder(size) ==
    IF \E o \in Orders : Pow2(o) >= size
    THEN CHOOSE o \in Orders : Pow2(o) >= size /\ \A q \in Orders : Pow2(q) >= size => o <= q
    ELSE -1

\* lowest order at or above o with a non-empty free list in fa, -1 if none
Supplying(fa, o) ==
    IF \E s \in o .. max_order : fa[s] # <<>>
    THEN CHOOSE s \in o .. max_order : fa[s] # <<>> /\ \A q \in o .. (s - 1) : fa[q] = <<>>
    ELSE -1

\* C1: the allocated blocks and the blocks on the free lists tile the arena:
\* every page lies in exactly one block, no block is registered twice, and a
\* block of order k starts at a multiple of 2^k bytes.
C1_Conservation ==
    /\ Cardinality(FreeBlocks) = FreeCount
    /\ \A p \in Pages :
         Cardinality({b \in FreeBlocks \cup AllocatedBlocks : p \in BlockPages(b.page, b.order)}) = 1
    /\ \A b \in FreeBlocks \cup AllocatedBlocks :
         /\ b.order \in Orders
         /\ (b.page * PAGE_SIZE) % Pow2(b.order) = 0
         /\ BlockPages(b.page, b.order) \subseteq Pages

C1_Witness ==
    /\ op = "free"
    /\ allocated # {}
    /\ \E o \in Orders : Len(free_area[o]) >= 2

\* C2: whenever every allocated block has been freed, the free lists are the
\* initial ones: page 0 alone on the MAX_ORDER list, all other lists empty.
C2_MergeToCompletion == allocated = {} => free_area = init_free_area

\* C3: get_order(size) is the smallest order of the arena whose block holds
\* size bytes and -1 beyond the arena; get_order(2^k) = k, get_order(2^k+1) =
\* k+1 below MAX_ORDER, get_order(2^MAX_ORDER + 1) = -1.
C3_GetOrder ==
    op = "get_order" =>
        /\ arg <= Pow2(max_order) =>
             /\ ret \in Orders
             /\ Pow2(ret) >= arg
             /\ \A o \in Orders : Pow2(o) >= arg => ret <= o
        /\ arg > Pow2(max_order) => ret = -1
        /\ \A k \in MIN_ORDER .. max_order : arg = Pow2(k) => ret = k
        /\ \A k \in MIN_ORDER .. (max_order - 1) : arg = Pow2(k) + 1 => ret = k + 1
        /\ arg = Pow2(max_order) + 1 => ret = -1

C3_Witness == op = "get_order" /\ max_order = MAX_ORDER /\ arg = Pow2(MAX_ORDER - 1) + 1 /\ ret = MAX_ORDER

\* C4: buddy_alloc(size) fails exactly when size exceeds the arena or every
\* free list from get_order(size) to MAX_ORDER is empty; otherwise it returns
\* the address of the head block of the lowest non-empty list at or above
\* get_order(size), as a block of order get_order(size).
C4_AllocFailsIff ==
    [][op' = "alloc" =>
        LET order == SmallestOrder(arg')
            s == IF order = -1 THEN -1 ELSE Supplying(free_area, order)
        IN  /\ ret' = NULL <=> (arg' > Pow2(max_order) \/ s = -1)
            /\ ret' # NULL =>
                 /\ ret' = PAGE_TO_ADDR(Head(free_area[s]))
                 /\ g_pages'[ADDR_TO_PAGE(ret')].order = order
                 /\ [addr |-> ret', order |-> order] \in allocated'
      ]_vars

C4_Witness ==
    /\ op = "alloc" /\ ret = NULL /\ arg <= Pow2(max_order)
    /\ \E o \in Orders : o < SmallestOrder(arg) /\ free_area[o] # <<>>

\* C5: a buddy_alloc that fails leaves every free list and every page
\* descriptor as it was.
C5_FailedAllocMutatesNothing ==
    [][(op' = "alloc" /\ ret' = NULL) => (free_area' = free_area /\ g_pages' = g_pages)]_vars

C5_Witness ==
    /\ op = "alloc" /\ ret = NULL /\ arg <= Pow2(max_order)
    /\ \E p \in Pages : g_pages[p].order = SmallestOrder(arg)
    /\ allocated # {}

\* C6: from buddy_init, with no frees, buddy_alloc(2^MIN_ORDER) succeeds
\* exactly 2^(MAX_ORDER-MIN_ORDER) = 256 times, on a new page each time, and
\* fails from then on.
C6_Exhaustion ==
    [][op' = "alloc" =>
        /\ Pow2(max_order - MIN_ORDER) = 256
        /\ ret' # NULL <=> Cardinality(allocated) < 256
        /\ ret' # NULL =>
             /\ ret' \in {PAGE_TO_ADDR(p) : p \in Pages}
             /\ \A b \in allocated : b.addr # ret'
             /\ Cardinality(allocated') = Cardinality(allocated) + 1
        /\ ret' = NULL => allocated' = allocated
      ]_vars

C6_Witness ==
    /\ max_order = MAX_ORDER
    /\ op = "alloc" /\ arg = PAGE_SIZE /\ ret = NULL
    /\ {b.addr : b \in allocated} = {PAGE_TO_ADDR(p) : p \in 0 .. 255}

\* C7: a buddy_alloc served from an order s above the requested order leaves
\* on each list from the requested order to s-1 exactly the right half made
\* at that level, takes the head off list s and changes no other list.
C7_SplitCorrectness ==
    [][(op' = "alloc" /\ ret' # NULL) =>
        LET order == SmallestOrder(arg')
            s == Supplying(free_area, order)
        IN  s > order =>
              /\ \A k \in order .. (s - 1) :
                   free_area'[k] = <<ADDR_TO_PAGE(PAGE_TO_ADDR(Head(free_area[s])) + Pow2(k))>>
              /\ free_area'[s] = Tail(free_area[s])
              /\ \A k \in Orders : (k < order \/ k > s) => free_area'[k] = free_area[k]
      ]_vars

C7_Witness ==
    /\ max_order = MIN_ORDER + 2
    /\ hist = <<Call("alloc", PAGE_SIZE, 0)>>
    /\ free_area = (MIN_ORDER :> <<1>>) @@ (MIN_ORDER + 1 :> <<2>>) @@ (MIN_ORDER + 2 :> <<>>)

\* the calls of the scenario: two allocations of one page, then the frees
IsAllocPage(c) == c.op = "alloc" /\ c.arg = PAGE_SIZE

Scenario3 ==
    /\ Len(hist) = 3
    /\ IsAllocPage(hist[1]) /\ IsAllocPage(hist[2])
    /\ hist[3] = Call("free", hist[1].ret, 0)

Scenario4 ==
    /\ Len(hist) = 4
    /\ IsAllocPage(hist[1]) /\ IsAllocPage(hist[2])
    /\ hist[3] = Call("free", hist[1].ret, 0)
    /\ hist[4] = Call("free", hist[2].ret, 0)

\* C8: after buddy_init the first buddy_alloc(2^MIN_ORDER) returns page 0,
\* the second page 1, and buddy_free of the first leaves page 0 on the
\* MIN_ORDER free list, not merged.
C8_ScenarioFirstPart ==
    /\ (Len(hist) >= 1 /\ IsAllocPage(hist[1])) => hist[1].ret = PAGE_TO_ADDR(0)
    /\ (Len(hist) >= 2 /\ IsAllocPage(hist[1]) /\ IsAllocPage(hist[2])) =>
          hist[2].ret = hist[1].ret + Pow2(MIN_ORDER)
    /\ Scenario3 =>
          /\ free_area[MIN_ORDER] = <<0>>
          /\ \A o \in Orders : o > MIN_ORDER => 0 \notin ListSet(free_area[o])
          /\ allocated = {[addr |-> PAGE_TO_ADDR(1), order |-> MIN_ORDER]}

C8_Witness == Scenario3 /\ op = "free" /\ arg = 0 /\ max_order = MIN_ORDER + 2

\* C9 as claimed: after the scenario's buddy_free(A1), page 0 is registered
\* in the free list of order MIN_ORDER+1.
C9_ScenarioMergeOrder13 ==
    Scenario4 => 0 \in ListSet(free_area[MIN_ORDER + 1])

\* C9: after the scenario's buddy_free(A1), pages 0-1 have been merged and
\* merged again with the free right halves of the first split, up to
\* MAX_ORDER: the free lists are the initial ones, page 0 on the MAX_ORDER
\* list.
C9_ScenarioMergeToTop ==
    Scenario4 =>
        /\ free_area = init_free_area
        /\ free_area[max_order] = <<0>>
        /\ allocated = {}

C9_Witness == Scenario4 /\ op = "free" /\ arg = PAGE_SIZE /\ max_order = MIN_ORDER + 2

C11_FreeDescriptorOrder ==
    \A k \in Orders : \A p \in ListSet(free_area[k]) : g_pages[p].order = k

\* C12: buddy_init, called in whatever state, leaves every descriptor with
\* order -1 and its own index, the lists below MAX_ORDER empty and page 0
\* alone on the MAX_ORDER list.
C12_InitResets ==
    [][op' = "init" =>
        /\ \A p \in Pages : g_pages'[p].order = -1 /\ g_pages'[p].index = p
        /\ \A k \in MIN_ORDER .. (max_order - 1) : free_area'[k] = <<>>
        /\ free_area'[max_order] = <<0>>
        /\ allocated' = {}
      ]_vars

C12_Witness ==
    /\ op = "init" /\ ncalls = 0 /\ arg >= 2
    /\ \A p \in Pages : g_pages[p].order = -1
    /\ free_area[max_order] = <<0>>

\* C13: buddy_dump changes no free list and no descriptor, and reports for
\* each order from MIN_ORDER to MAX_ORDER, in this order, the number of
\* blocks on that order's free list.
C13_DumpPureRead ==
    [][op' = "dump" =>
        /\ free_area' = free_area
        /\ g_pages' = g_pages
        /\ Len(out') = max_order - MIN_ORDER + 1
        /\ \A k \in 1 .. Len(out') : out'[k][1] = Len(free_area[MIN_ORDER + k - 1])
      ]_vars

C13_Witness ==
    /\ op = "dump"
    /\ Len(out) = max_order - MIN_ORDER + 1
    /\ out[1][1] >= 2
    /\ out[Len(out)][1] = 0

\* address of the block of order k that holds addr
AlignDown(addr, k) == addr - (addr % Pow2(k))

\* page of the buddy, at order k, of the block of order k that holds addr
BuddyOf(addr, k) == XorBit(AlignDown(addr, k), k) \div PAGE_SIZE

\* order recorded by the caller for the allocated block at addr
OrderOf(addr) == (CHOOSE b \in allocated : b.addr = addr).order

\* C14: no free list holds two blocks that are buddies of each other.
C14_NoFreeBuddies ==
    \A k \in MIN_ORDER .. (max_order - 1) :
        \A p \in ListSet(free_area[k]) : BuddyOf(PAGE_TO_ADDR(p), k) \notin ListSet(free_area[k])

\* C15: a buddy_free of a block of order o that ends at order k has taken
\* from each list j in o..k-1 the buddy of the order-j block holding the
\* freed address, has examined at every order the buddy of the block merged
\* so far (the lower of block and buddy), and has inserted the 2^k-aligned
\* block holding the freed address.
C15_MergedBlockCarried ==
    [][op' = "free" =>
        LET o == OrderOf(arg')
            probed == buddy_free(free_area, g_pages, arg').probed
        IN  /\ \A n \in 2 .. Len(probed) : probed[n] = BuddyOf(arg', o + n - 2)
            /\ \E k \in o .. max_order :
                 /\ Len(probed) = k - o + 2
                 /\ ListSet(free_area'[k]) = ListSet(free_area[k]) \cup {AlignDown(arg', k) \div PAGE_SIZE}
                 /\ (PAGE_TO_ADDR(AlignDown(arg', k) \div PAGE_SIZE)) % Pow2(k) = 0
                 /\ \A j \in o .. (k - 1) :
                      /\ BuddyOf(arg', j) \in ListSet(free_area[j])
                      /\ ListSet(free_area'[j]) = ListSet(free_area[j]) \ {BuddyOf(arg', j)}
      ]_vars

C15_Witness ==
    /\ max_order = MIN_ORDER + 2
    /\ Len(hist) >= 3 /\ hist[3] = Call("alloc", 2 * PAGE_SIZE, 2 * PAGE_SIZE)
    /\ op = "free" /\ arg = PAGE_TO_ADDR(1)
    /\ free_area = init_free_area

\* C16: every buddy page index buddy_free computes lies inside the
\* descriptor table, and none is computed at order MAX_ORDER.
C16_BuddyInsideTable ==
    [][op' = "free" =>
        LET o == OrderOf(arg')
            probed == buddy_free(free_area, g_pages, arg').probed
        IN  /\ \A n \in 1 .. Len(probed) : probed[n] \in Pages
            /\ \A n \in 2 .. Len(probed) : o + n - 2 < max_order
      ]_vars

\* C17: a buddy_free of an allocated address returns having inserted one
\* block, which holds the freed pages, into one free list of an order
\* between the block's order and MAX_ORDER; no list gains anything else.
C17_FreeInsertsOneBlock ==
    [][op' = "free" =>
        LET o == OrderOf(arg')
            gained(k) == ListSet(free_area'[k]) \ ListSet(free_area[k])
        IN  \E k \in o .. max_order :
              /\ Cardinality(gained(k)) = 1
              /\ Len(free_area'[k]) = Cardinality(ListSet(free_area'[k]))
              /\ \A p \in gained(k) : ADDR_TO_PAGE(arg') \in BlockPages(p, k)
              /\ \A j \in Orders : j # k => gained(j) = {}
      ]_vars

C17_Witness ==
    /\ op = "free" /\ allocated = {}
    /\ Len(hist) = 2 /\ hist[1].op = "alloc" /\ hist[1].arg = Pow2(max_order)
    /\ free_area[max_order] = <<0>>

\* the buddy_free step just taken put the freed block itself, unmerged, on
\* the list of its order
FreedUnmerged ==
    /\ op' = "free"
    /\ ListSet(free_area'[OrderOf(arg')]) = ListSet(free_area[OrderOf(arg')]) \cup {ADDR_TO_PAGE(arg')}

C20_AllocatedOrderKept ==
    \A b \in allocated : g_pages[ADDR_TO_PAGE(b.addr)].order = b.order

C20_Witness ==
    /\ op = "free"
    /\ Cardinality(allocated) >= 2
    /\ \E k \in Orders : k > MIN_ORDER /\ free_area[k] # <<>>

====
